---- MODULE Spec2Model ----
(***************************************************************************)
(* Model of open_green_compute: the instrumentation loop of main.rs and    *)
(* the four sensors it schedules (FoxEssSensor, FritzSensor,               *)
(* WeatherSensor, PowerSensor).                                            *)
(*                                                                         *)
(* Every blocking backend request of a sensor is one step.  The reply of   *)
(* the backend is an input of the step, drawn from a small set of replies. *)
(* f64 readings are modelled as integers; the sentinel -1.0 is -1.         *)
(***************************************************************************)
EXTENDS Integers, Sequences, FiniteSets, TLC

\* ------------------------------------------------------------------ bounds

\* Ticks 0..MaxTicks of the instrumentation loop are explored.
MaxTicks == 4
\* slow_loop_delay is drawn from 1..MaxPeriod (and the two degenerate values).
MaxPeriod == 3
\* Backend readings are drawn from 1..NumReadings.
NumReadings == 2

\* --------------------------------------------------------------- constants

\* The fallback value of a metric that could not be measured.
Sentinel == -1
\* The only HTTP status the sensors accept.
StatusOk == 200

Readings == 1..NumReadings

\* Result<T, E>
Ok(v) == [ok |-> TRUE, val |-> v]
Err == [ok |-> FALSE, val |-> <<>>]

\* vec![x; n]
Fill(x, n) == [k \in 1..n |-> x]

\* Option<T> is a sequence of length 0 (None) or 1 (Some).
None == <<>>
Some(x) == <<x>>
unwrap_or_else(opt, default) == IF opt = None THEN default ELSE opt[1]

RECURSIVE Flatten(_)
Flatten(rows) == IF rows = <<>> THEN <<>> ELSE Head(rows) \o Flatten(Tail(rows))

\* ---------------------------------------------------- sensor names, metrics

\* The sensors are named after their type: "fox" (FoxEssSensor), "fritz",
\* "weather" and "power".  main holds them as Box<dyn Sensor>.

\* The variables the cloud inverter is configured with.
fox_variables == <<"foo", "bar">>

VARIABLE variables    \* FoxEssSensor.variables
FRITZ_METRICS == <<"power", "energy", "temperature">>
WEATHER_NAMES == <<"temperature", "humidity", "pressure", "visibility",
                   "wind_speed", "wind_direction", "cloud_coverage", "description">>
POWER_NAMES == <<"voltage", "current", "power">>

\* format!("{}_{}", self.name, metric) as the pair <<name, metric>>
NamesOf(name, metrics) == [k \in 1..Len(metrics) |-> <<name, metrics[k]>>]

get_names(sensor) ==
    CASE sensor = "fox" -> NamesOf(sensor, variables)
      [] sensor = "fritz" -> NamesOf(sensor, FRITZ_METRICS)
      [] sensor = "weather" -> NamesOf(sensor, WEATHER_NAMES)
      [] sensor = "power" -> NamesOf(sensor, POWER_NAMES)

\* --------------------------------------------------------------- variables

VARIABLES
    fast_loop,        \* Loops.fast_loop: the configured fast sensors, in order
    slow_loop,        \* Loops.slow_loop
    slow_loop_delay,  \* cfg general.slow_loop_delay
    pc,               \* position of main's loop
    i,                \* index of the sensor the current for loop is at
    mpc,              \* position inside the current measure call
    j,                \* main: j
    cache,            \* main: cache
    new_cache,        \* main: new_cache
    val,              \* main: val, the row of this tick
    written,          \* outcome of this tick's writeln!
    token,            \* FoxEssSensor.token
    sid,              \* FritzSensor::measure: sid
    res,              \* FritzSensor::measure: res
    tick,             \* history: index of the current tick
    call,             \* history: the measure call in progress or last returned
    fastRows,         \* history: rows the fast sensors returned this tick
    lastSample,       \* history: rows the slow sensors returned at the last resample
    lastSampleTick,   \* history: tick of the last resample
    lastSid,          \* history: the SID the last FritzSensor::measure logged in with
    ina_config,       \* the configuration register (0x00) of the INA219
    cfg_data          \* Config.data: the loop lists of [general] and the sections

vars == <<fast_loop, slow_loop, slow_loop_delay, pc, i, mpc, j, cache, new_cache,
          val, written, token, sid, res, tick, call, fastRows, lastSample,
          lastSampleTick, lastSid, variables, cfg_data, ina_config>>

cfgVars == <<fast_loop, slow_loop, slow_loop_delay, cfg_data>>

\* ------------------------------------------------------------ HTTP replies

\* A reply of a backend: whether the request got through (send()), the
\* status, whether the body parses into the expected document, the errno of
\* the document and its payload.
Reply(sent, status, parses, errno, payload) ==
    [sent |-> sent, status |-> status, parses |-> parses, errno |-> errno,
     payload |-> payload]

\* Replies that fail below the document: transport error, status other than
\* 200, a body that cannot be read or does not parse.
BrokenReplies(payload) ==
    { Reply(FALSE, 0, FALSE, 0, payload),
      Reply(TRUE, 403, TRUE, 0, payload),
      Reply(TRUE, StatusOk, FALSE, 0, payload) }

\* The failing replies of the FoxESS cloud: the above, and a non-zero errno.
FailedReplies(payload) ==
    BrokenReplies(payload) \cup { Reply(TRUE, StatusOk, TRUE, 40000, payload) }

\* The value the backend holds for the k-th metric of a sensor at reading v.
Reading(k, v) == 10 * k + v

\* ------------------------------------------------------------ FoxEssSensor

NoToken == "n/a"
Tokens == {"n/a", "abc", "xyz"}

LoginReplies ==
    FailedReplies("abc") \cup { Reply(TRUE, StatusOk, TRUE, 0, t) : t \in Tokens }

ProbeReplies == FailedReplies(<<>>) \cup { Reply(TRUE, StatusOk, TRUE, 0, <<>>) }

\* DataSeries: variable and data (the values of the series entries).
Series(variable, data) == [variable |-> variable, data |-> data]

GoodSeries(v) ==
    << Series("foo", <<0, Reading(1, v)>>), Series("bar", <<Reading(2, v)>>) >>

\* Results of a data query that parses with errno 0: the requested series,
\* the series in the other order, a series missing, a series too many, a
\* series without data points.
QueryResults(v) ==
    { GoodSeries(v),
      << GoodSeries(v)[2], GoodSeries(v)[1] >>,
      << GoodSeries(v)[1] >>,
      GoodSeries(v) \o << Series("baz", <<Reading(3, v)>>) >>,
      << GoodSeries(v)[1], Series("bar", <<>>) >> }

QueryReplies ==
    FailedReplies(<<>>)
    \cup { Reply(TRUE, StatusOk, TRUE, 0, r) : r \in UNION { QueryResults(v) : v \in Readings } }

\* get_token without the check of errno.
fox_get_token_AnyErrno(resp) ==
    IF ~resp.sent THEN Err
    ELSE IF resp.status # StatusOk THEN Err
    ELSE IF ~resp.parses THEN Err
    ELSE Ok(resp.payload)

fox_get_token(resp) ==
    IF ~resp.sent THEN Err
    ELSE IF resp.status # StatusOk THEN Err
    ELSE IF ~resp.parses THEN Err
    ELSE IF resp.errno # 0 THEN Err
    ELSE Ok(resp.payload)

test_token(resp) ==
    IF ~resp.sent THEN Err
    ELSE IF resp.status # StatusOk THEN Err
    ELSE IF ~resp.parses THEN Err
    ELSE IF resp.errno # 0 THEN Err
    ELSE Ok(TRUE)

\* do_query without the comparison of the number of series with the number
\* of requested variables.
do_query_AnyLength(resp) ==
    IF ~resp.sent THEN Err
    ELSE IF resp.status # StatusOk THEN Err
    ELSE IF ~resp.parses THEN Err
    ELSE IF resp.errno # 0 THEN Err
    ELSE IF \E k \in 1..Len(resp.payload) : resp.payload[k].data = <<>> THEN Err
    ELSE Ok([k \in 1..Len(resp.payload) |->
                resp.payload[k].data[Len(resp.payload[k].data)]])

\* do_query that takes the first data point of a series.
do_query_FirstPoint(resp) ==
    IF ~resp.sent THEN Err
    ELSE IF resp.status # StatusOk THEN Err
    ELSE IF ~resp.parses THEN Err
    ELSE IF resp.errno # 0 THEN Err
    ELSE IF Len(resp.payload) # Len(variables) THEN Err
    ELSE IF \E k \in 1..Len(resp.payload) : resp.payload[k].data = <<>> THEN Err
    ELSE Ok([k \in 1..Len(resp.payload) |-> resp.payload[k].data[1]])

do_query(resp) ==
    IF ~resp.sent THEN Err
    ELSE IF resp.status # StatusOk THEN Err
    ELSE IF ~resp.parses THEN Err
    ELSE IF resp.errno # 0 THEN Err
    ELSE IF Len(resp.payload) # Len(variables) THEN Err
    ELSE IF \E k \in 1..Len(resp.payload) : resp.payload[k].data = <<>> THEN Err
    ELSE Ok([k \in 1..Len(resp.payload) |->
                resp.payload[k].data[Len(resp.payload[k].data)]])

\* ------------------------------------------------- the call of a measure

\* The sensor the current for loop of main is at.
InLoop ==
    \/ pc = "fast" /\ i <= Len(fast_loop)
    \/ pc = "slow" /\ i <= Len(slow_loop)

Cur == IF pc = "fast" THEN fast_loop[i] ELSE slow_loop[i]

Calling(sensor) == InLoop /\ Cur = sensor

\* ------------------------------------------------------------------ Ina219

\* The width of the registers of the device: read_u16.
RegisterBits == 16
Registers == 0..(2^RegisterBits - 1)

\* a & b on unsigned integers.
RECURSIVE BitAnd(_, _)
BitAnd(a, b) ==
    IF a = 0 \/ b = 0 THEN 0
    ELSE (a % 2) * (b % 2) + 2 * BitAnd(a \div 2, b \div 2)

\* Ina219::sleep: the value written back to the configuration register.
sleep(config) == BitAnd(config, 65528)

\* Ina219::wake: the value written back to the configuration register.
wake(config) == BitAnd(config, 7)

\* The configuration register after the device calls of a measure call: a
\* call that fails is taken to have written nothing.
RECURSIVE RegisterAfter(_, _)
RegisterAfter(log, config) ==
    IF log = <<>> THEN config
    ELSE LET step == Head(log)
             next == IF ~step.ok THEN config
                     ELSE IF step.op = "wake" THEN wake(config)
                     ELSE IF step.op = "sleep" THEN sleep(config)
                     ELSE config
         IN  RegisterAfter(Tail(log), next)

\* History of a measure call: the sensor, the token it held on entry, the
\* requests it sent (operation, token or sid sent, for get_token the token
\* received, whether the operation succeeded), for the cloud inverter what
\* the backend replied to the last of them, the number of diagnostic
\* messages, the row it returned.
NoCall ==
    [sensor |-> "none", before |-> NoToken, log |-> <<>>,
     reply |-> [sent |-> FALSE, status |-> 0, parses |-> FALSE, errno |-> 0,
                series |-> <<>>],
     regs |-> [bus |-> 0, current |-> 0, power |-> 0],
     msgs |-> 0, row |-> <<>>, done |-> FALSE, panicked |-> FALSE]

CallAt ==
    IF mpc = "start"
    THEN [NoCall EXCEPT !.sensor = Cur, !.before = token]
    ELSE call

Logged(c, op, tok, ok) ==
    [c EXCEPT !.log = Append(@, [op |-> op, token |-> tok, ok |-> ok])]

\* The backend replied resp to the last request of the call.
Got(c, resp) ==
    [c EXCEPT !.reply = [sent |-> resp.sent, status |-> resp.status,
                         parses |-> resp.parses, errno |-> resp.errno,
                         series |-> <<>>]]

\* The backend replied resp to the data query: DataResponse.result as well.
GotSeries(c, resp) == [Got(c, resp) EXCEPT !.reply.series = resp.payload]

Said(c) == [c EXCEPT !.msgs = @ + 1]

\* The SID a call of FritzSensor::measure got from get_token ("": none).
SessionOf(c) ==
    IF \E k \in 1..Len(c.log) : c.log[k].op = "response" /\ c.log[k].ok
    THEN c.log[CHOOSE k \in 1..Len(c.log) : c.log[k].op = "response"].token
    ELSE ""

\* measure returns row to main, which extends val (fast loop) or new_cache
\* (slow loop) with it and moves on to the next sensor.
Return(row, c) ==
    /\ call' = [c EXCEPT !.row = row, !.done = TRUE]
    /\ lastSid' = IF c.sensor = "fritz" THEN SessionOf(c) ELSE lastSid
    /\ ina_config' = RegisterAfter(c.log, ina_config)
    /\ i' = i + 1
    /\ mpc' = "start"
    /\ IF pc = "fast"
       THEN /\ val' = val \o row
            /\ fastRows' = Append(fastRows, [sensor |-> c.sensor, row |-> row])
            /\ UNCHANGED <<new_cache, lastSample>>
       ELSE /\ new_cache' = new_cache \o row
            /\ lastSample' = Append(lastSample, [sensor |-> c.sensor, row |-> row])
            /\ UNCHANGED <<val, fastRows>>
    /\ UNCHANGED <<pc, j, cache, written, tick, lastSampleTick, cfgVars>>

\* measure panics: the process is gone.
Panic(c) ==
    /\ call' = [c EXCEPT !.panicked = TRUE]
    /\ ina_config' = RegisterAfter(c.log, ina_config)
    /\ pc' = "panicked"
    /\ UNCHANGED <<i, mpc, j, cache, new_cache, val, written, token, sid, res, tick,
                   fastRows, lastSample, lastSampleTick, lastSid, variables, cfgVars>>

\* A step inside measure: main does not move.
Inside(next, c) ==
    /\ call' = c
    /\ mpc' = next
    /\ UNCHANGED <<pc, i, j, cache, new_cache, val, written, tick, fastRows,
                   lastSample, lastSampleTick, lastSid, ina_config, cfgVars>>

\* FoxProbe that logs in again whatever the test of the token says.
FoxProbe_AlwaysLogin ==
    /\ Calling("fox") /\ mpc = "start" /\ token # NoToken
    /\ \E resp \in ProbeReplies :
          LET r == test_token(resp)
              c == Got(Logged(CallAt, "test_token", token, r.ok), resp)
          IN  Inside("login", c)
    /\ UNCHANGED <<token, sid, res, variables>>

\* FoxProbe that gives up when the test of the token fails: the sentinel row
\* is returned and no login is attempted.
FoxProbe_GiveUp ==
    /\ Calling("fox") /\ mpc = "start" /\ token # NoToken
    /\ \E resp \in ProbeReplies :
          LET r == test_token(resp)
              c == Got(Logged(CallAt, "test_token", token, r.ok), resp)
          IN  IF r.ok
              THEN Inside("query", c)
              ELSE Return(Fill(Sentinel, Len(variables)), Said(c))
    /\ UNCHANGED <<token, sid, res, variables>>

\* FoxProbe that goes on to the data query whatever the test says.
FoxProbe_QueryAnyway ==
    /\ Calling("fox") /\ mpc = "start" /\ token # NoToken
    /\ \E resp \in ProbeReplies :
          LET r == test_token(resp)
              c == Got(Logged(CallAt, "test_token", token, r.ok), resp)
          IN  Inside("query", c)
    /\ UNCHANGED <<token, sid, res, variables>>

\* FoxEssSensor::measure, the else branch: a token is held, test it.
FoxProbe ==
    /\ Calling("fox") /\ mpc = "start" /\ token # NoToken
    /\ \E resp \in ProbeReplies :
          LET r == test_token(resp)
              c == Got(Logged(CallAt, "test_token", token, r.ok), resp)
          IN  Inside(IF r.ok THEN "query" ELSE "login", c)
    /\ UNCHANGED <<token, sid, res, variables>>

\* FoxLogin that stores the token of the first login only: after a failed
\* test the held token is kept.
FoxLogin_KeepStale ==
    /\ Calling("fox")
    /\ \/ mpc = "start" /\ token = NoToken
       \/ mpc = "login"
    /\ \E resp \in LoginReplies :
          LET r == fox_get_token(resp)
              c == Got(Logged(CallAt, "get_token", IF r.ok THEN r.val ELSE NoToken, r.ok),
                       resp)
          IN  IF r.ok
              THEN /\ token' = (IF mpc = "start" THEN r.val ELSE token)
                   /\ Inside("query", c)
              ELSE /\ token' = token
                   /\ Return(Fill(Sentinel, Len(variables)), Said(c))
    /\ UNCHANGED <<sid, res, variables>>

\* FoxLogin that goes on to the data query after a failed login.
FoxLogin_QueryAfterFailure ==
    /\ Calling("fox")
    /\ \/ mpc = "start" /\ token = NoToken
       \/ mpc = "login"
    /\ \E resp \in LoginReplies :
          LET r == fox_get_token(resp)
              c == Got(Logged(CallAt, "get_token", IF r.ok THEN r.val ELSE NoToken, r.ok),
                       resp)
          IN  /\ token' = (IF r.ok THEN r.val ELSE token)
              /\ Inside("query", IF r.ok THEN c ELSE Said(c))
    /\ UNCHANGED <<sid, res, variables>>

\* FoxEssSensor::measure: self.token = match self.get_token() ..., reached with
\* no token held or after a failed test of the token.
FoxLogin ==
    /\ Calling("fox")
    /\ \/ mpc = "start" /\ token = NoToken
       \/ mpc = "login"
    /\ \E resp \in LoginReplies :
          LET r == fox_get_token(resp)
              c == Got(Logged(CallAt, "get_token", IF r.ok THEN r.val ELSE NoToken, r.ok),
                       resp)
          IN  IF r.ok
              THEN /\ token' = r.val
                   /\ Inside("query", c)
              ELSE /\ token' = token
                   /\ Return(Fill(Sentinel, Len(variables)), Said(c))
    /\ UNCHANGED <<sid, res, variables>>

\* FoxQuery that sends the data query once more after a failed one.
FoxQuery_Retry ==
    /\ Calling("fox") /\ mpc = "query"
    /\ \E resp \in QueryReplies :
          LET r == do_query(resp)
              c == GotSeries(Logged(call, "do_query", token, r.ok), resp)
              first == \A k \in 1..Len(call.log) : call.log[k].op # "do_query"
          IN  IF r.ok
              THEN Return(r.val, c)
              ELSE IF first
              THEN Inside("query", Said(c))
              ELSE Return(Fill(Sentinel, Len(variables)), Said(c))
    /\ UNCHANGED <<token, sid, res, variables>>

\* FoxQuery that takes the names of the series of the reply for the variables
\* of the sensor.
FoxQuery_AdoptsSeries ==
    /\ Calling("fox") /\ mpc = "query"
    /\ \E resp \in QueryReplies :
          LET r == do_query(resp)
              c == GotSeries(Logged(call, "do_query", token, r.ok), resp)
          IN  IF r.ok
              THEN /\ Return(r.val, c)
                   /\ variables' = [k \in 1..Len(resp.payload) |-> resp.payload[k].variable]
              ELSE /\ Return(Fill(Sentinel, Len(variables)), Said(c))
                   /\ variables' = variables
    /\ UNCHANGED <<token, sid, res>>

\* FoxQuery that forgets the token when the data query fails.
FoxQuery_DropsToken ==
    /\ Calling("fox") /\ mpc = "query"
    /\ \E resp \in QueryReplies :
          LET r == do_query(resp)
              c == GotSeries(Logged(call, "do_query", token, r.ok), resp)
          IN  IF r.ok
              THEN /\ Return(r.val, c)
                   /\ token' = token
              ELSE /\ Return(Fill(Sentinel, Len(variables)), Said(c))
                   /\ token' = NoToken
    /\ UNCHANGED <<sid, res, variables>>

\* FoxEssSensor::measure: match self.do_query(&self.token)
FoxQuery ==
    /\ Calling("fox") /\ mpc = "query"
    /\ \E resp \in QueryReplies :
          LET r == do_query(resp)
              c == GotSeries(Logged(call, "do_query", token, r.ok), resp)
          IN  IF r.ok
              THEN Return(r.val, c)
              ELSE Return(Fill(Sentinel, Len(variables)), Said(c))
    /\ UNCHANGED <<token, sid, res, variables>>

\* ------------------------------------------------------------- FritzSensor

Sids == {"0000000000000000", "9a8b7c6d5e4f3210"}

\* LoginResponse: SID and Challenge.
SidReplies ==
    BrokenReplies("0000000000000000")
    \cup { Reply(TRUE, StatusOk, TRUE, 0, s) : s \in Sids }

FRITZ_OPS == <<"getswitchpower", "getswitchenergy", "gettemperature">>

\* The replies to the k-th switch command: the body is the number.
ValueReplies(k) ==
    BrokenReplies(0)
    \cup { Reply(TRUE, StatusOk, TRUE, 0, Reading(k, v)) : v \in Readings }

\* FritzSensor::get_token, the request of the challenge.
fritz_get_challenge(resp) ==
    IF ~resp.sent THEN Err
    ELSE IF resp.status # StatusOk THEN Err
    ELSE IF ~resp.parses THEN Err
    ELSE Ok(resp.payload)

\* FritzSensor::get_token, the request of the SID with the response.
fritz_get_sid(resp) ==
    IF ~resp.sent THEN Err
    ELSE IF resp.status # StatusOk THEN Err
    ELSE IF ~resp.parses THEN Err
    ELSE Ok(resp.payload)

get_value(resp) ==
    IF ~resp.sent THEN Err
    ELSE IF resp.status # StatusOk THEN Err
    ELSE IF ~resp.parses THEN Err
    ELSE Ok(resp.payload)

\* FritzSensor::measure: self.get_token(), first request.
FritzChallenge ==
    /\ Calling("fritz") /\ mpc = "start"
    /\ \E resp \in SidReplies :
          LET r == fritz_get_challenge(resp)
              c == Logged(CallAt, "challenge", NoToken, r.ok)
          IN  IF r.ok
              THEN Inside("response", c)
              ELSE Return(<<Sentinel, Sentinel, Sentinel>>, Said(c))
    /\ UNCHANGED <<token, sid, res, variables>>

\* FritzResponse that goes on to the switch commands when the request of the
\* SID fails.
FritzResponse_GoesOn ==
    /\ Calling("fritz") /\ mpc = "response"
    /\ \E resp \in SidReplies :
          LET r == fritz_get_sid(resp)
              c == Logged(call, "response", IF r.ok THEN r.val ELSE NoToken, r.ok)
          IN  /\ sid' = (IF r.ok THEN r.val ELSE sid)
              /\ res' = <<>>
              /\ Inside("value", IF r.ok THEN c ELSE Said(c))
    /\ UNCHANGED <<token, variables>>

\* FritzSensor::measure: self.get_token(), second request.
FritzResponse ==
    /\ Calling("fritz") /\ mpc = "response"
    /\ \E resp \in SidReplies :
          LET r == fritz_get_sid(resp)
              c == Logged(call, "response", IF r.ok THEN r.val ELSE NoToken, r.ok)
          IN  IF r.ok
              THEN /\ sid' = r.val
                   /\ res' = <<>>
                   /\ Inside("value", c)
              ELSE /\ UNCHANGED <<sid, res, variables>>
                   /\ Return(<<Sentinel, Sentinel, Sentinel>>, Said(c))
    /\ UNCHANGED <<token, variables>>

\* FritzSensor::measure: one round of the loop over the three switch commands.
FritzGetValue ==
    /\ Calling("fritz") /\ mpc = "value"
    /\ \E resp \in ValueReplies(Len(res) + 1) :
          LET r == get_value(resp)
              c == Logged(call, FRITZ_OPS[Len(res) + 1], sid, r.ok)
              tmp == IF r.ok THEN r.val ELSE Sentinel
              res2 == Append(res, tmp)
          IN  IF Len(res2) < Len(FRITZ_OPS)
              THEN /\ res' = res2
                   /\ sid' = sid
                   /\ Inside("value", IF r.ok THEN c ELSE Said(c))
              ELSE /\ res' = <<>>
                   /\ sid' = ""
                   /\ Return(res2, IF r.ok THEN c ELSE Said(c))
    /\ UNCHANGED <<token, variables>>

\* ----------------------------------------------------------- WeatherSensor

WeatherSections == {"main", "visibility", "wind", "clouds"}

\* WeatherInfo at reading v, with the sections in missing left out.
WeatherInfo(v, missing, ids) ==
    [weather |-> ids,
     main |-> IF "main" \in missing THEN None
              ELSE Some([temp |-> Reading(1, v), pressure |-> Reading(3, v),
                         humidity |-> Reading(2, v)]),
     visibility |-> IF "visibility" \in missing THEN None ELSE Some(Reading(4, v)),
     wind |-> IF "wind" \in missing THEN None
              ELSE Some([speed |-> Reading(5, v), deg |-> Reading(6, v)]),
     clouds |-> IF "clouds" \in missing THEN None ELSE Some([all |-> Reading(7, v)])]

WeatherReplies ==
    BrokenReplies(<<>>)
    \cup { Reply(TRUE, StatusOk, TRUE, 0, WeatherInfo(v, m, <<Reading(8, v)>>)) :
             v \in Readings, m \in SUBSET WeatherSections }
    \cup { Reply(TRUE, StatusOk, TRUE, 0, WeatherInfo(v, {}, <<>>)) : v \in Readings }

\* weather_measure with the row in the order of the fields of MainData: temp,
\* pressure, humidity.
weather_measure_FieldOrder(resp) ==
    IF ~resp.sent THEN [panic |-> FALSE, row |-> Fill(Sentinel, Len(WEATHER_NAMES))]
    ELSE IF resp.status # StatusOk
    THEN [panic |-> FALSE, row |-> Fill(Sentinel, Len(WEATHER_NAMES))]
    ELSE IF ~resp.parses THEN [panic |-> FALSE, row |-> Fill(Sentinel, Len(WEATHER_NAMES))]
    ELSE LET weather == resp.payload
             main == unwrap_or_else(weather.main,
                        [temp |-> Sentinel, pressure |-> Sentinel, humidity |-> Sentinel])
             wind == unwrap_or_else(weather.wind, [speed |-> Sentinel, deg |-> Sentinel])
             clouds == unwrap_or_else(weather.clouds, [all |-> Sentinel])
         IN  IF weather.weather = <<>>
             THEN [panic |-> TRUE, row |-> <<>>]
             ELSE [panic |-> FALSE,
                   row |-> << main.temp, main.pressure, main.humidity,
                              unwrap_or_else(weather.visibility, Sentinel),
                              wind.speed, wind.deg, clouds.all, weather.weather[1] >>]

\* WeatherSensor::measure; the index weather.weather[0] panics on an empty list.
weather_measure(resp) ==
    IF ~resp.sent THEN [panic |-> FALSE, row |-> Fill(Sentinel, Len(WEATHER_NAMES))]
    ELSE IF resp.status # StatusOk
    THEN [panic |-> FALSE, row |-> Fill(Sentinel, Len(WEATHER_NAMES))]
    ELSE IF ~resp.parses THEN [panic |-> FALSE, row |-> Fill(Sentinel, Len(WEATHER_NAMES))]
    ELSE LET weather == resp.payload
             main == unwrap_or_else(weather.main,
                        [temp |-> Sentinel, pressure |-> Sentinel, humidity |-> Sentinel])
             wind == unwrap_or_else(weather.wind, [speed |-> Sentinel, deg |-> Sentinel])
             clouds == unwrap_or_else(weather.clouds, [all |-> Sentinel])
         IN  IF weather.weather = <<>>
             THEN [panic |-> TRUE, row |-> <<>>]
             ELSE [panic |-> FALSE,
                   row |-> << main.temp, main.humidity, main.pressure,
                              unwrap_or_else(weather.visibility, Sentinel),
                              wind.speed, wind.deg, clouds.all, weather.weather[1] >>]

\* Whether the reply makes a step of WeatherSensor::measure fail.
WeatherFailed(resp) ==
    \/ ~resp.sent \/ resp.status # StatusOk \/ ~resp.parses
    \/ None \in {resp.payload.main, resp.payload.visibility, resp.payload.wind,
                 resp.payload.clouds}

WeatherMeasure ==
    /\ Calling("weather") /\ mpc = "start"
    /\ \E resp \in WeatherReplies :
          LET m == weather_measure(resp)
              c == Logged(CallAt, "get", NoToken, ~m.panic /\ ~WeatherFailed(resp))
          IN  IF m.panic THEN Panic(c)
              ELSE Return(m.row, c) /\ UNCHANGED <<token, sid, res, variables>>

\* ------------------------------------------------------------- PowerSensor

\* The device calls of PowerSensor::measure, in order; each is unwrapped.
POWER_STEPS == <<"open", "calibrate", "wake", "read_voltage", "read_current",
                 "read_power", "sleep">>

\* The registers 0x02 (bus voltage), 0x04 (current) and 0x03 (power).
PowerRegisters ==
    { [bus |-> 8 * v, current |-> v, power |-> p] : v \in Readings, p \in {0, 1} }

\* What the device does: the step that fails ("none": all succeed) and the
\* registers it holds.
PowerDevice ==
    { [fails |-> "none", regs |-> r] : r \in PowerRegisters }
    \cup { [fails |-> POWER_STEPS[k], regs |-> [bus |-> 0, current |-> 0, power |-> 0]] :
              k \in 1..Len(POWER_STEPS) }

\* PowerSensor::measure answering a non-positive power with the sentinel row.
power_measure_IdleIsFailure(dev) ==
    IF dev.fails # "none" THEN [panic |-> TRUE, row |-> <<>>]
    ELSE LET voltage == (dev.regs.bus \div 8) * 4
             current == dev.regs.current
             power == dev.regs.power * 20
         IN  IF power <= 0
             THEN [panic |-> FALSE, row |-> Fill(Sentinel, 3)]
             ELSE [panic |-> FALSE, row |-> <<voltage, current, power>>]

\* PowerSensor::measure.  voltage is in mV, current and power in units of
\* 1000 * current_lsb (current_lsb > 0).
power_measure(dev) ==
    IF dev.fails # "none" THEN [panic |-> TRUE, row |-> <<>>]
    ELSE LET voltage == (dev.regs.bus \div 8) * 4
             current == dev.regs.current
             power == dev.regs.power * 20
         IN  IF power <= 0
             THEN [panic |-> FALSE, row |-> Fill(0, 3)]
             ELSE [panic |-> FALSE, row |-> <<voltage, current, power>>]

\* The device calls PowerSensor::measure makes on dev: all of POWER_STEPS, or
\* those up to the one that fails, where the unwrap panics.
PowerTrace(dev) ==
    LET n == IF dev.fails = "none" THEN Len(POWER_STEPS)
             ELSE CHOOSE k \in 1..Len(POWER_STEPS) : POWER_STEPS[k] = dev.fails
    IN  [k \in 1..n |->
            [op |-> POWER_STEPS[k], token |-> NoToken, ok |-> POWER_STEPS[k] # dev.fails]]

PowerMeasure ==
    /\ Calling("power") /\ mpc = "start"
    /\ \E dev \in PowerDevice :
          LET m == power_measure(dev)
              c == [CallAt EXCEPT !.log = PowerTrace(dev), !.regs = dev.regs]
          IN  IF m.panic THEN Panic(c)
              ELSE Return(m.row, c) /\ UNCHANGED <<token, sid, res, variables>>

\* -------------------------------------------------------------------- main

\* The names of the sensors of a loop, one after the other.
LoopNames(loop) == Flatten([k \in 1..Len(loop) |-> get_names(loop[k])])

\* main: the header line of the CSV file.
headers == << <<"timestamp">> >> \o LoopNames(fast_loop) \o LoopNames(slow_loop)

\* ---------------------------------------------------------------- startup

\* The most names general.slow_loop and general.fast_loop list together.
MaxListed == 2

\* The tables of the configuration file: one per sensor, named after the
\* sensor it is meant for, and one for a device of a type main does not know.
SectionNames == {"power", "fox", "fritz", "weather", "misc"}

\* create_sensor: the arms of the match on sensor_cfg["type"].
KNOWN_TYPES == {"weather", "power", "fritz", "foxess"}

\* create_sensor: the fields each arm tests with contains_key.
CheckedFields(type) ==
    CASE type = "weather" -> {"url", "lat", "long", "app_id"}
      [] type = "power" -> {"bus", "address", "expected_amps"}
      [] type = "fritz" -> {"url", "user", "password", "ain"}
      [] type = "foxess" -> {"api_key", "inverter_id", "variables"}

\* create_sensor: the fields each arm reads with sensor_cfg[...], which panics
\* on a missing key; the foxess arm reads url without testing for it.
IndexedFields(type) ==
    IF type = "foxess" THEN CheckedFields(type) \cup {"url"} ELSE CheckedFields(type)

\* The sensor an arm builds, under the name the model gives the sensors.
SensorOf(type) == IF type = "foxess" THEN "fox" ELSE type

\* cfg.data[name]: no table of that name (table = FALSE), or a table with its
\* type (None: no string under "type") and the keys it holds.
NoSection == [table |-> FALSE, type |-> None, keys |-> {}]
FullSection(type) == [table |-> TRUE, type |-> Some(type), keys |-> IndexedFields(type)]
TypeFor(name) == IF name = "fox" THEN "foxess" ELSE name

GoodSections ==
    [name \in SectionNames |->
        IF name = "misc"
        THEN [table |-> TRUE, type |-> Some("camera"), keys |-> {"url"}]
        ELSE FullSection(TypeFor(name))]

\* What can be wrong with the table of one name.
SectionVariants(name) ==
    IF name = "misc"
    THEN { NoSection,
           [GoodSections[name] EXCEPT !.type = None],
           FullSection("power") }
    ELSE { NoSection,
           [GoodSections[name] EXCEPT !.type = None],
           [GoodSections[name] EXCEPT !.type = Some("camera")] }
         \cup { [GoodSections[name] EXCEPT !.keys = @ \ {key}] :
                   key \in IndexedFields(TypeFor(name)) }

SectionTables ==
    {GoodSections}
    \cup UNION { { [GoodSections EXCEPT ![name] = section] :
                       section \in SectionVariants(name) } : name \in SectionNames }

NameLists == UNION { [1..n -> SectionNames] : n \in 0..MaxListed }

\* general.slow_loop and general.fast_loop: a list of names cut in two.
LoopLists ==
    UNION { { [slow_loop |-> SubSeq(names, 1, k), fast_loop |-> SubSeq(names, k + 1, Len(names))] :
                 k \in 0..Len(names) } : names \in NameLists }

\* The configurations get_sensors is run on.
RawConfigs ==
    { [slow_loop |-> lists.slow_loop, fast_loop |-> lists.fast_loop, sections |-> sections] :
         lists \in LoopLists, sections \in SectionTables }

\* create_sensor that passes over a table of a known type that lacks a field.
create_sensor_SkipsIncomplete(name, sensor_cfg) ==
    IF sensor_cfg.type = None
    THEN [panic |-> TRUE, sensor |-> None]
    ELSE LET type == sensor_cfg.type[1]
         IN  IF type \notin KNOWN_TYPES
             THEN [panic |-> FALSE, sensor |-> None]
             ELSE IF ~(IndexedFields(type) \subseteq sensor_cfg.keys)
             THEN [panic |-> FALSE, sensor |-> None]
             ELSE [panic |-> FALSE, sensor |-> Some(SensorOf(type))]

\* create_sensor: None for a type without an arm, a panic for a missing type
\* or a missing field.
create_sensor(name, sensor_cfg) ==
    IF sensor_cfg.type = None
    THEN [panic |-> TRUE, sensor |-> None]
    ELSE LET type == sensor_cfg.type[1]
         IN  IF type \notin KNOWN_TYPES
             THEN [panic |-> FALSE, sensor |-> None]
             ELSE IF ~(CheckedFields(type) \subseteq sensor_cfg.keys)
             THEN [panic |-> TRUE, sensor |-> None]
             ELSE IF ~(IndexedFields(type) \subseteq sensor_cfg.keys)
             THEN [panic |-> TRUE, sensor |-> None]
             ELSE [panic |-> FALSE, sensor |-> Some(SensorOf(type))]

\* get_sensors: one of its two for loops.
RECURSIVE create_all(_, _)
create_all(names, sections) ==
    IF names = <<>> THEN [panic |-> FALSE, sensors |-> <<>>]
    ELSE LET name == Head(names)
         IN  IF ~sections[name].table
             THEN [panic |-> TRUE, sensors |-> <<>>]
             ELSE LET made == create_sensor(name, sections[name])
                      rest == create_all(Tail(names), sections)
                  IN  IF made.panic \/ rest.panic
                      THEN [panic |-> TRUE, sensors |-> <<>>]
                      ELSE [panic |-> FALSE, sensors |-> made.sensor \o rest.sensors]

\* get_sensors: the slow list is built first, then the fast one.
get_sensors(cfg) ==
    LET slow_sensors == create_all(cfg.slow_loop, cfg.sections)
        fast_sensors == create_all(cfg.fast_loop, cfg.sections)
    IN  IF slow_sensors.panic \/ fast_sensors.panic
        THEN [panic |-> TRUE, slow_loop |-> <<>>, fast_loop |-> <<>>]
        ELSE [panic |-> FALSE, slow_loop |-> slow_sensors.sensors,
              fast_loop |-> fast_sensors.sensors]

\* The configurations explored: general.fast_loop and general.slow_loop.
Configs ==
    { [fast |-> <<"power">>, slow |-> <<"power", "fox">>],
      [fast |-> <<"fritz">>, slow |-> <<>>],
      [fast |-> <<"weather">>, slow |-> <<>>],
      [fast |-> <<"fox", "power">>, slow |-> <<"power">>] }

\* general.slow_loop_delay is not validated: 0 and negative values load too.
Periods == (1..MaxPeriod) \cup {0, 0 - 1}

\* The periods a configuration is run with; one with several slow sensors is
\* run with no resample after tick 0, with the shortest period that reuses the
\* cache and with the longest one, and resampling on every tick is left to the
\* configurations with one slow sensor.
PeriodsOf(cfg) == IF Len(cfg.slow) > 1 THEN {0, 2, MaxPeriod} ELSE Periods

\* What main holds before the loop, but for the configuration and the loops.
Constructed ==
    /\ i = 1
    /\ mpc = "start"
    /\ j = 0
    /\ cache = <<>>
    /\ new_cache = <<>>
    /\ val = <<>>
    /\ written = "none"
    /\ token = NoToken
    /\ sid = ""
    /\ res = <<>>
    /\ tick = 0
    /\ call = NoCall
    /\ fastRows = <<>>
    /\ lastSample = <<>>
    /\ lastSampleTick = 0 - 1
    /\ lastSid = ""
    /\ variables = fox_variables

\* The configuration register when the program starts: every bit set.
ConfigAtStart == 2^RegisterBits - 1

\* main before loop: the configuration is loaded and get_sensors has run.
Init ==
    /\ \E cfg \in Configs :
          /\ cfg_data = [slow_loop |-> cfg.slow, fast_loop |-> cfg.fast,
                         sections |-> GoodSections]
          /\ fast_loop = get_sensors(cfg_data).fast_loop
          /\ slow_loop = get_sensors(cfg_data).slow_loop
          /\ slow_loop_delay \in PeriodsOf(cfg)
    /\ pc = "begin"
    /\ ina_config = ConfigAtStart
    /\ Constructed

\* main before get_sensors: the configuration is loaded.
StartupInit ==
    /\ cfg_data \in RawConfigs
    /\ fast_loop = <<>>
    /\ slow_loop = <<>>
    /\ slow_loop_delay = 1
    /\ pc = "startup"
    /\ ina_config = ConfigAtStart
    /\ Constructed

\* main: let mut loops = get_sensors(&cfg);
GetSensors ==
    /\ pc = "startup"
    /\ LET loops == get_sensors(cfg_data)
       IN  IF loops.panic
           THEN pc' = "panicked" /\ UNCHANGED <<fast_loop, slow_loop>>
           ELSE /\ pc' = "begin"
                /\ fast_loop' = loops.fast_loop
                /\ slow_loop' = loops.slow_loop
    /\ UNCHANGED <<slow_loop_delay, cfg_data, i, mpc, j, cache, new_cache, val, written,
                   token, sid, res, tick, call, fastRows, lastSample, lastSampleTick,
                   lastSid, variables, ina_config>>

snsVars == <<token, sid, res, variables, ina_config>>

\* loop { let mut val = Vec::new(); val.push(now) ...: the timestamp is the
\* index of the tick (the clock is taken to be past the epoch).
BeginTick ==
    /\ pc = "begin"
    /\ val' = <<tick>>
    /\ pc' = "fast"
    /\ i' = 1
    /\ mpc' = "start"
    /\ UNCHANGED <<j, cache, new_cache, written, tick, call, fastRows, lastSample,
                   lastSampleTick, cfgVars, snsVars, lastSid>>

\* EndFast without the test of j: the slow sensors are sampled on every tick.
EndFast_Always ==
    /\ pc = "fast" /\ i > Len(fast_loop)
    /\ pc' = "slow"
    /\ i' = 1
    /\ new_cache' = <<>>
    /\ lastSample' = <<>>
    /\ lastSampleTick' = tick
    /\ call' = NoCall
    /\ UNCHANGED <<mpc, j, cache, val, written, tick, fastRows, cfgVars, snsVars, lastSid>>

\* EndFast that samples the slow sensors again as soon as the cache holds a
\* sentinel: a failed slow sensor is retried on the next tick.
EndFast_RetryFailed ==
    /\ pc = "fast" /\ i > Len(fast_loop)
    /\ IF j = 0 \/ \E k \in 1..Len(cache) : cache[k] = Sentinel
       THEN /\ pc' = "slow"
            /\ i' = 1
            /\ new_cache' = <<>>
            /\ lastSample' = <<>>
            /\ lastSampleTick' = tick
       ELSE /\ pc' = "emit"
            /\ UNCHANGED <<i, new_cache, lastSample, lastSampleTick>>
    /\ call' = NoCall
    /\ UNCHANGED <<mpc, j, cache, val, written, tick, fastRows, cfgVars, snsVars, lastSid>>

\* The end of the for loop over the fast sensors, and if j == 0 { let mut
\* new_cache = Vec::new(); ...
EndFast ==
    /\ pc = "fast" /\ i > Len(fast_loop)
    /\ IF j = 0
       THEN /\ pc' = "slow"
            /\ i' = 1
            /\ new_cache' = <<>>
            /\ lastSample' = <<>>
            /\ lastSampleTick' = tick
       ELSE /\ pc' = "emit"
            /\ UNCHANGED <<i, new_cache, lastSample, lastSampleTick>>
    /\ call' = NoCall
    /\ UNCHANGED <<mpc, j, cache, val, written, tick, fastRows, cfgVars, snsVars, lastSid>>

\* StoreCache without cache.clear(): the new rows are appended to the old.
StoreCache_NoClear ==
    /\ pc = "slow" /\ i > Len(slow_loop)
    /\ cache' = cache \o new_cache
    /\ pc' = "emit"
    /\ call' = NoCall
    /\ UNCHANGED <<i, mpc, j, new_cache, val, written, tick, fastRows,
                   lastSample, lastSampleTick, cfgVars, snsVars, lastSid>>

\* The end of the for loop over the slow sensors: cache.clear();
\* cache.extend(new_cache.to_owned()).
StoreCache ==
    /\ pc = "slow" /\ i > Len(slow_loop)
    /\ cache' = new_cache
    /\ pc' = "emit"
    /\ call' = NoCall
    /\ UNCHANGED <<i, mpc, j, new_cache, val, written, tick, fastRows,
                   lastSample, lastSampleTick, cfgVars, snsVars, lastSid>>

\* NextJ with the comparison made before the increment: the period is one
\* tick too long.
NextJ_LateWrap(k, delay) == IF k = delay THEN 0 ELSE k + 1

\* NextJ without the wrap: j counts the ticks.
NextJ_NoWrap(k, delay) == k + 1

\* NextJ that wraps as soon as j has reached the period or passed it: a period
\* of 0 or less resamples on every tick.
NextJ_WrapsAtOrAbove(k, delay) == IF k + 1 >= delay THEN 0 ELSE k + 1

\* j += 1; if j == slow_loop_delay { j = 0 }
NextJ(k, delay) == IF k + 1 = delay THEN 0 ELSE k + 1

\* Emit that puts the cache between the timestamp and the rows of the fast
\* sensors.
Emit_CacheFirst ==
    /\ pc = "emit"
    /\ val' = <<Head(val)>> \o cache \o Tail(val)
    /\ j' = NextJ(j, slow_loop_delay)
    /\ \E open_ok \in BOOLEAN, write_ok \in BOOLEAN :
          IF open_ok
          THEN /\ pc' = "sleep"
               /\ written' = IF write_ok THEN "ok" ELSE "err"
          ELSE /\ pc' = "panicked"
               /\ written' = written
    /\ UNCHANGED <<i, mpc, cache, new_cache, tick, call, fastRows, lastSample,
                   lastSampleTick, cfgVars, snsVars, lastSid>>

\* Emit that leaves j as it is when the row could not be written.
Emit_StallsOnError ==
    /\ pc = "emit"
    /\ val' = val \o cache
    /\ \E open_ok \in BOOLEAN, write_ok \in BOOLEAN :
          IF open_ok
          THEN /\ pc' = "sleep"
               /\ written' = IF write_ok THEN "ok" ELSE "err"
               /\ j' = IF write_ok THEN NextJ(j, slow_loop_delay) ELSE j
          ELSE /\ pc' = "panicked"
               /\ written' = written
               /\ j' = NextJ(j, slow_loop_delay)
    /\ UNCHANGED <<i, mpc, cache, new_cache, tick, call, fastRows, lastSample,
                   lastSampleTick, cfgVars, snsVars, lastSid>>

\* val.extend(cache); the update of j; the file is opened for appending
\* (expect) and the row is written (an error is reported and ignored).
Emit ==
    /\ pc = "emit"
    /\ val' = val \o cache
    /\ j' = NextJ(j, slow_loop_delay)
    /\ \E open_ok \in BOOLEAN, write_ok \in BOOLEAN :
          IF open_ok
          THEN /\ pc' = "sleep"
               /\ written' = IF write_ok THEN "ok" ELSE "err"
          ELSE /\ pc' = "panicked"
               /\ written' = written
    /\ UNCHANGED <<i, mpc, cache, new_cache, tick, call, fastRows, lastSample,
                   lastSampleTick, cfgVars, snsVars, lastSid>>

\* thread::sleep(timeout); val is dropped at the end of the loop body and the
\* loop starts over.
Sleep ==
    /\ pc = "sleep"
    /\ tick < MaxTicks
    /\ pc' = "begin"
    /\ tick' = tick + 1
    /\ val' = <<>>
    /\ fastRows' = <<>>
    /\ written' = "none"
    /\ UNCHANGED <<i, mpc, j, cache, new_cache, call, lastSample, lastSampleTick,
                   cfgVars, snsVars, lastSid>>

Next ==
    \/ BeginTick
    \/ FoxProbe
    \/ FoxLogin
    \/ FoxQuery
    \/ FritzChallenge
    \/ FritzResponse
    \/ FritzGetValue
    \/ WeatherMeasure
    \/ PowerMeasure
    \/ EndFast
    \/ StoreCache
    \/ Emit
    \/ Sleep

Spec == Init /\ [][Next]_vars

\* Startup alone: get_sensors on every configuration of RawConfigs.
StartupSpec == StartupInit /\ [][GetSensors]_vars

\* The device alone, with any value in its configuration register.
DeviceInit ==
    /\ ina_config \in Registers
    /\ cfg_data = [slow_loop |-> <<>>, fast_loop |-> <<>>, sections |-> GoodSections]
    /\ fast_loop = <<>>
    /\ slow_loop = <<>>
    /\ slow_loop_delay = 1
    /\ pc = "device"
    /\ Constructed

\* ina.wake()
Ina219Wake ==
    /\ pc \in {"device", "asleep"}
    /\ ina_config' = wake(ina_config)
    /\ pc' = "awake"
    /\ UNCHANGED <<i, mpc, j, cache, new_cache, val, written, token, sid, res, tick,
                   call, fastRows, lastSample, lastSampleTick, lastSid, variables,
                   cfgVars>>

\* ina.sleep()
Ina219Sleep ==
    /\ pc \in {"device", "awake"}
    /\ ina_config' = sleep(ina_config)
    /\ pc' = "asleep"
    /\ UNCHANGED <<i, mpc, j, cache, new_cache, val, written, token, sid, res, tick,
                   call, fastRows, lastSample, lastSampleTick, lastSid, variables,
                   cfgVars>>

DeviceSpec == DeviceInit /\ [][Ina219Wake \/ Ina219Sleep]_vars

\* ------------------------------------------------------------------ claims

RowsOf(rec) == Flatten([k \in 1..Len(rec) |-> rec[k].row])
SensorsOf(rec) == [k \in 1..Len(rec) |-> rec[k].sensor]

FastWidth == Len(LoopNames(fast_loop))
SlowWidth == Len(LoopNames(slow_loop))

\* The row of this tick is complete and has gone to the log file.
Emitted == pc = "sleep"

\* The slow-loop part of the row: what follows the timestamp and the columns
\* of the fast sensors.
SlowPart(row) == SubSeq(row, 2 + FastWidth, Len(row))

\* The tick of the resample that tick t belongs to, for a period p >= 1.
ResampleTick(t, p) == t - (t % p)

\* C1: for slow_loop_delay >= 1, the slow-loop part of the row emitted on tick
\* t is the concatenation of the rows the slow sensors returned on the most
\* recent resample tick, the largest multiple of slow_loop_delay that is <= t:
\* it is the same row-set on every tick of a period and is replaced as a whole
\* on the next resample tick.
C1_CacheCorrectness ==
    (Emitted /\ slow_loop_delay >= 1) =>
        /\ lastSampleTick = ResampleTick(tick, slow_loop_delay)
        /\ SlowPart(val) = RowsOf(lastSample)
        /\ cache = RowsOf(lastSample)

\* C1 witness: period 3, the row of tick 4 carries the rows sampled on tick 3,
\* and they are readings of the cloud inverter, not sentinels.
C1_Witness ==
    /\ Emitted /\ slow_loop_delay = 3 /\ tick = 4 /\ lastSampleTick = 3
    /\ Len(lastSample) = 2
    /\ lastSample[2].sensor = "fox" /\ lastSample[2].row = <<Reading(1, 2), Reading(2, 2)>>
    /\ SlowPart(val) = RowsOf(lastSample)

\* C2: for slow_loop_delay >= 1, measure of a slow sensor is called only on
\* ticks whose index is a multiple of slow_loop_delay (tick 0 included); on
\* such a tick every slow sensor is measured once, in configured order; on
\* every other tick none is measured and the cache is the row-set of the last
\* resample, unchanged.
C2_SlowSampling ==
    slow_loop_delay >= 1 =>
        /\ pc = "slow" => tick % slow_loop_delay = 0 /\ lastSampleTick = tick
        /\ (pc \in {"emit", "sleep"} /\ tick % slow_loop_delay = 0) =>
              /\ lastSampleTick = tick
              /\ SensorsOf(lastSample) = slow_loop
        /\ (pc \in {"fast", "emit", "sleep"} /\ tick % slow_loop_delay # 0) =>
              /\ lastSampleTick < tick
              /\ SensorsOf(lastSample) = slow_loop
              /\ cache = RowsOf(lastSample)

\* C2 witness: period 2, tick 3 is emitted from the cache filled on tick 2 by
\* two slow sensors.
C2_Witness ==
    /\ Emitted /\ slow_loop_delay = 2 /\ tick = 3 /\ lastSampleTick = 2
    /\ Len(slow_loop) = 2 /\ SensorsOf(lastSample) = slow_loop

\* C3: every emitted row has 1 + (metrics of the fast sensors) + (metrics of
\* the slow sensors) values, the width of the header line, whatever the
\* sensors' outcomes; once written, the cache has the width of the slow
\* sensors' metrics and keeps it.
C3_RowWidth ==
    /\ Emitted => Len(val) = 1 + FastWidth + SlowWidth /\ Len(val) = Len(headers)
    /\ Len(cache) \in {0, SlowWidth}
    /\ (pc \in {"emit", "sleep"} \/ tick > 0) => Len(cache) = SlowWidth

\* C3 witness: a row emitted on a later tick that holds a sentinel and a
\* reading, after the cache was written twice.
C3_Witness ==
    /\ Emitted /\ tick = 2 /\ slow_loop_delay = 2 /\ SlowWidth > 0
    /\ \E k \in 2..Len(val) : val[k] = Sentinel
    /\ \E k \in 2..Len(val) : val[k] > 0

\* C4: the row a measure call returns has the length of the sensor's
\* get_names, on success and on failure alike.
C4_RowMatchesNames ==
    call.done => Len(call.row) = Len(get_names(call.sensor))

\* C4 witness: the cloud inverter returned after a failed test of its token, a
\* new login and a failed data query.
C4_Witness ==
    /\ call.done /\ call.sensor = "fox" /\ Len(call.log) = 3
    /\ ~call.log[1].ok /\ call.log[2].ok /\ ~call.log[3].ok
    /\ call.row = <<Sentinel, Sentinel>>

\* C5: measure never raises to the caller: whatever fails inside, the call
\* returns a row and does not panic.
C5_MeasureNeverPanics == ~call.panicked

\* A step of the call failed: a request or device call other than the test
\* of a held token, which a new login makes up for.
FailedStep(c) ==
    \E k \in 1..Len(c.log) : ~c.log[k].ok /\ c.log[k].op # "test_token"

\* C6: a measure call in which a step fails returns a row whose every element
\* is the sentinel; readings and sentinels are not mixed.
C6_FailureIsAllSentinel ==
    (call.done /\ FailedStep(call)) =>
        \A k \in 1..Len(call.row) : call.row[k] = Sentinel

\* C7: a failing measure does not abort the tick; the emitted row carries, for
\* every sensor, the values that sensor returned, so that sentinels stand in
\* the columns of the failing sensor only; the call of one sensor leaves the
\* session of another sensor as it was.
C7_FailureIsolation ==
    /\ ~(pc = "panicked" /\ call.sensor # "none")
    /\ Emitted => val = <<tick>> \o RowsOf(fastRows) \o RowsOf(lastSample)
    /\ call.sensor \notin {"none", "fox"} => token = call.before

\* C8: once the loop runs it never ends on its own: no outcome of a sensor or
\* of the log file leads to a panic.
C8_NeverTerminates == pc # "panicked"

FoxCallDone == call.done /\ call.sensor = "fox"

LoginsOf(c) == { k \in 1..Len(c.log) : c.log[k].op = "get_token" }

\* C9: the cloud inverter holds a token and the test of the token confirms
\* it: the call sends no login request, leaves the stored token as it was and
\* sends the data query with that token.
C9_SessionReuse ==
    (FoxCallDone /\ call.before # NoToken /\ call.log[1].ok) =>
        /\ call.log[1].op = "test_token" /\ call.log[1].token = call.before
        /\ LoginsOf(call) = {}
        /\ token = call.before
        /\ Len(call.log) = 2
        /\ call.log[2].op = "do_query" /\ call.log[2].token = call.before

\* C9 witness: a call that held "abc", had it confirmed and got readings.
C9_Witness ==
    /\ FoxCallDone /\ call.before = "abc" /\ call.log[1].ok
    /\ Len(call.log) = 2 /\ call.log[2].ok
    /\ call.row = <<Reading(1, 1), Reading(2, 1)>>

\* C10: the cloud inverter holds a token and the test of the token fails
\* (transport error, status other than 200, unparseable body, non-zero errno):
\* exactly one login is attempted, after the test and before the data query;
\* if it succeeds its token is stored and the data query is sent with it, and
\* the row is the sentinel row only if the login or the query fails.
C10_SessionInvalidation ==
    (FoxCallDone /\ call.before # NoToken /\ ~call.log[1].ok) =>
        /\ call.log[1].op = "test_token" /\ call.log[1].token = call.before
        /\ LoginsOf(call) = {2}
        /\ IF call.log[2].ok
           THEN /\ token = call.log[2].token
                /\ Len(call.log) = 3
                /\ call.log[3].op = "do_query" /\ call.log[3].token = call.log[2].token
                /\ (call.row = Fill(Sentinel, Len(fox_variables))) = ~call.log[3].ok
           ELSE /\ Len(call.log) = 2
                /\ call.row = Fill(Sentinel, Len(fox_variables))

\* C10 witness: a call that held "abc", had it refused, logged in again for
\* "xyz" and got readings with it.
C10_Witness ==
    /\ FoxCallDone /\ call.before = "abc" /\ ~call.log[1].ok
    /\ call.log[2].ok /\ token = "xyz" /\ call.log[3].token = "xyz" /\ call.log[3].ok
    /\ call.row = <<Reading(1, 2), Reading(2, 2)>>

\* The cloud inverter held a token, the test of it failed and so did the
\* login that followed.
ReacquireFailed ==
    /\ FoxCallDone /\ call.before # NoToken
    /\ Len(call.log) = 2
    /\ call.log[1].op = "test_token" /\ ~call.log[1].ok
    /\ call.log[2].op = "get_token" /\ ~call.log[2].ok

\* C11: when the test of a held token fails and the login that follows fails
\* too, measure returns the sentinel row and the sensor holds no token
\* afterwards, so that the next call starts with a login and not with a test
\* of the old token.
C11_ReacquireFailureResets ==
    ReacquireFailed =>
        /\ call.row = Fill(Sentinel, Len(fox_variables))
        /\ token = NoToken

\* C12: the cloud inverter holds no token and the login fails (transport
\* error, status other than 200, unparseable body, non-zero errno): the sensor
\* still holds no token, the row is the sentinel row with one value per
\* configured variable, and the login is the only request of the call: no
\* test of a token and no data query is sent.
C12_AcquireFailure ==
    (FoxCallDone /\ call.before = NoToken /\ ~call.log[1].ok) =>
        /\ call.log[1].op = "get_token"
        /\ Len(call.log) = 1
        /\ token = NoToken
        /\ call.row = Fill(Sentinel, Len(fox_variables))
        /\ Len(call.row) = Len(get_names("fox"))

\* C12 witness: on a later tick the sensor still holds no token, and the login
\* fails again.
C12_Witness ==
    /\ FoxCallDone /\ tick = 2 /\ call.before = NoToken
    /\ call.log = << [op |-> "get_token", token |-> NoToken, ok |-> FALSE] >>
    /\ call.msgs = 1
    /\ call.row = <<Sentinel, Sentinel>>

\* The operations of the requests of a call, in the order they were sent.
OpsOf(c) == [k \in 1..Len(c.log) |-> c.log[k].op]

\* The requests a call of the cloud inverter may have sent when it returns.
FoxCallShapes ==
    { <<"get_token">>, <<"get_token", "do_query">>,
      <<"test_token", "do_query">>,
      <<"test_token", "get_token">>, <<"test_token", "get_token", "do_query">> }

IsPrefix(s, t) == Len(s) <= Len(t) /\ SubSeq(t, 1, Len(s)) = s

\* C13: one measure call of the cloud inverter sends at most one test of the
\* token, at most one login and at most one data query, in that order; a step
\* that failed is not sent again in the same call, and a failed login or data
\* query ends the call.
C13_OneAttempt ==
    call.sensor = "fox" =>
        /\ \E shape \in FoxCallShapes : IsPrefix(OpsOf(call), shape)
        /\ call.done => OpsOf(call) \in FoxCallShapes
        /\ \A k \in 1..Len(call.log) :
              (~call.log[k].ok /\ call.log[k].op # "test_token") =>
                  call.done /\ k = Len(call.log)

\* C13 witness: a call in which all three steps were sent and the data query
\* failed.
C13_Witness ==
    /\ FoxCallDone /\ OpsOf(call) = <<"test_token", "get_token", "do_query">>
    /\ ~call.log[1].ok /\ call.log[2].ok /\ ~call.log[3].ok
    /\ call.msgs = 1 /\ tick = 1

\* The requests of the login exchange of the gateway (login_sid.lua).
FritzLoginOps == {"challenge", "response"}

\* C14: the gateway source does not log in on every tick: when the previous
\* measure call obtained a session and the gateway accepts that session in
\* this call (a switch command sent with it succeeds), this call has not sent
\* the login exchange.
C14_GatewaySessionReuse ==
    (/\ call.sensor = "fritz" /\ ~call.done /\ lastSid # ""
     /\ \E k \in 1..Len(call.log) :
           /\ call.log[k].op \in {FRITZ_OPS[n] : n \in 1..Len(FRITZ_OPS)}
           /\ call.log[k].ok /\ call.log[k].token = lastSid) =>
        \A k \in 1..Len(call.log) : call.log[k].op \notin FritzLoginOps

\* A row that carries the sentinel: the sensor failed when it was sampled.
HasSentinel(row) == \E k \in 1..Len(row) : row[k] = Sentinel

\* The columns of the fast sensors in a row.
FastPart(row) == SubSeq(row, 2, 1 + FastWidth)

\* C15 as stated: a failure shows in the row of the tick it happened on only;
\* on the next tick the sensor, fast or slow, has been sampled again, so a
\* sentinel in an emitted row is of a sample taken on that same tick.
C15_FailureOneTick ==
    (Emitted /\ slow_loop_delay >= 1) =>
        /\ SensorsOf(fastRows) = fast_loop /\ FastPart(val) = RowsOf(fastRows)
        /\ \A k \in 1..Len(lastSample) :
              HasSentinel(lastSample[k].row) => lastSampleTick = tick

\* C15 as amended: in every emitted row the columns of a fast sensor are what
\* it returned on this tick, so a failure of a fast sensor shows on the tick
\* it happened on only; the columns of a slow sensor are what it returned on
\* the last resample, so a failure of a slow sensor shows in every row of the
\* period it happened in: the sensor is sampled again on the next multiple of
\* slow_loop_delay and not before.
C15_FailureScope ==
    Emitted =>
        /\ SensorsOf(fastRows) = fast_loop /\ FastPart(val) = RowsOf(fastRows)
        /\ SensorsOf(lastSample) = slow_loop /\ SlowPart(val) = RowsOf(lastSample)
        /\ \A k \in 1..Len(lastSample) :
              (HasSentinel(lastSample[k].row) /\ slow_loop_delay >= 1) =>
                  /\ lastSampleTick = ResampleTick(tick, slow_loop_delay)
                  /\ tick - lastSampleTick < slow_loop_delay
                  /\ HasSentinel(SlowPart(val))

\* C15 witness: period 3; the cloud inverter failed on tick 0 and its
\* sentinels are in the row of tick 2, next to readings of the fast sensor
\* taken on tick 2.
C15_Witness ==
    /\ Emitted /\ slow_loop_delay = 3 /\ tick = 2 /\ lastSampleTick = 0
    /\ Len(lastSample) = 2 /\ lastSample[2].sensor = "fox"
    /\ lastSample[2].row = <<Sentinel, Sentinel>>
    /\ SlowPart(val)[4] = Sentinel /\ SlowPart(val)[5] = Sentinel
    /\ Len(fastRows) = 1 /\ fastRows[1].row[3] > 0

\* C16: whatever token the cloud inverter holds when measure is called (none,
\* a valid one, a stale one, the one a failed login left behind): if every
\* login and data query the call sends succeeds, the call ends with the data
\* query and returns its readings, not sentinels; and a call of the sensor
\* can always take its next step.
C16_Recovery ==
    /\ (FoxCallDone /\ ~FailedStep(call)) =>
          /\ call.log[Len(call.log)].op = "do_query" /\ call.log[Len(call.log)].ok
          /\ call.log[Len(call.log)].token = token
          /\ Len(call.row) = Len(fox_variables)
          /\ ~HasSentinel(call.row)
    /\ Calling("fox") => ENABLED (FoxProbe \/ FoxLogin \/ FoxQuery)

\* C16 witness: on tick 3 the sensor holds "xyz", which the backend refuses;
\* the login brings "abc" and the data query answers.
C16_Witness ==
    /\ FoxCallDone /\ tick = 3 /\ call.before = "xyz"
    /\ OpsOf(call) = <<"test_token", "get_token", "do_query">>
    /\ ~call.log[1].ok /\ call.log[2].ok /\ call.log[3].ok
    /\ token = "abc"
    /\ call.row = <<Reading(1, 1), Reading(2, 1)>>

\* The device is awake after the device calls of log: a wake went through
\* and no sleep went through after it.
Awake(log) ==
    \E w \in 1..Len(log) :
        /\ log[w].op = "wake" /\ log[w].ok
        /\ ~\E k \in (w + 1)..Len(log) : log[k].op = "sleep" /\ log[k].ok

\* C17: on every way out of the hardware source's measure (a row is returned,
\* or a device call fails) the device is back in its low-power state: a sleep
\* went through after the last wake.
C17_DeviceAsleepOnExit ==
    (call.sensor = "power" /\ (call.done \/ call.panicked)) => ~Awake(call.log)

\* C18: a measure call that puts a sentinel into the row it returns has
\* written at least one message to the diagnostic channel.
C18_FailureIsReported ==
    (call.done /\ HasSentinel(call.row)) => call.msgs >= 1

\* The reply has a status outside 200..299, or came with a status inside it
\* and a document that holds a non-zero errno.
Refused(reply) ==
    /\ reply.sent
    /\ \/ reply.status \notin 200..299
       \/ reply.parses /\ reply.errno # 0

\* C19: a request of the cloud inverter (login, test of the token, data query)
\* that is answered with a non-2xx status, or with a non-zero errno in a body
\* of a 2xx reply, fails; when it is the login or the data query, the call
\* returns the sentinel row.
C19_StatusAndErrno ==
    (call.sensor = "fox" /\ Refused(call.reply)) =>
        /\ ~call.log[Len(call.log)].ok
        /\ (call.log[Len(call.log)].op # "test_token") =>
              /\ call.done
              /\ call.row = Fill(Sentinel, Len(fox_variables))

\* C19 witness: the test of the token fails, the login succeeds, the data
\* query is answered with 200 and errno 40000.
C19_Witness ==
    /\ FoxCallDone /\ Len(call.log) = 3
    /\ ~call.log[1].ok /\ call.log[2].ok
    /\ call.reply.status = StatusOk /\ call.reply.errno = 40000
    /\ ~call.log[3].ok
    /\ call.row = <<Sentinel, Sentinel>>

\* The values the sensors of rec returned, each paired with the name of its
\* column: the k-th value of a sensor goes with the k-th name of get_names.
Labelled(rec) ==
    Flatten([k \in 1..Len(rec) |->
               [m \in 1..Len(rec[k].row) |->
                   <<get_names(rec[k].sensor)[m], rec[k].row[m]>>]])

\* C20: every emitted row is the timestamp, then the rows of the fast sensors
\* in configured order, then the row-set of the slow loop (the slow sensors in
\* configured order), each sensor's values in the order of its names: value n
\* of the row is the value of the column that the header line names at n.
C20_RowLayout ==
    Emitted =>
        /\ SensorsOf(fastRows) = fast_loop /\ SensorsOf(lastSample) = slow_loop
        /\ Len(val) = Len(headers)
        /\ headers[1] = <<"timestamp">> /\ val[1] = tick
        /\ \A n \in 2..Len(val) :
              <<headers[n], val[n]>> = (Labelled(fastRows) \o Labelled(lastSample))[n - 1]

\* C20 witness: the row of tick 1 with a fast hardware source and the cached
\* rows of a hardware source and the cloud inverter, all with readings.
C20_Witness ==
    /\ Emitted /\ tick = 1 /\ slow_loop_delay = 2
    /\ fast_loop = <<"power">> /\ slow_loop = <<"power", "fox">>
    /\ val = <<1, 4, 1, 20, 8, 2, 20, Reading(1, 1), Reading(2, 1)>>
    /\ headers[5] = <<"power", "voltage">> /\ headers[9] = <<"fox", "bar">>

\* C21: for slow_loop_delay >= 1, j is incremented once per tick and wraps at
\* slow_loop_delay: it is always in 0..slow_loop_delay-1, from the start of
\* tick n to the update it is n mod slow_loop_delay, and after the update it
\* is (n + 1) mod slow_loop_delay.
C21_TickCounter ==
    slow_loop_delay >= 1 =>
        /\ j \in 0..(slow_loop_delay - 1)
        /\ pc \in {"begin", "fast", "slow", "emit"} => j = tick % slow_loop_delay
        /\ pc = "sleep" => j = (tick + 1) % slow_loop_delay

\* C21 witness: period 3, the start of tick 4, after one wrap.
C21_Witness ==
    pc = "begin" /\ slow_loop_delay = 3 /\ tick = 4 /\ j = 1

\* C22: get_names of a sensor is its name with each of its metrics, in their
\* configured or fixed order, in every reachable state: no measure call,
\* failed or not, and no change of a session changes it, and the header line
\* stays the one built from it at startup.
C22_NamesStable ==
    /\ get_names("fox") = NamesOf("fox", fox_variables)
    /\ get_names("fox") = << <<"fox", "foo">>, <<"fox", "bar">> >>
    /\ get_names("fritz")
         = << <<"fritz", "power">>, <<"fritz", "energy">>, <<"fritz", "temperature">> >>
    /\ get_names("weather")
         = << <<"weather", "temperature">>, <<"weather", "humidity">>,
              <<"weather", "pressure">>, <<"weather", "visibility">>,
              <<"weather", "wind_speed">>, <<"weather", "wind_direction">>,
              <<"weather", "cloud_coverage">>, <<"weather", "description">> >>
    /\ get_names("power")
         = << <<"power", "voltage">>, <<"power", "current">>, <<"power", "power">> >>
    /\ Len(headers) = 1 + FastWidth + SlowWidth

\* C22 witness: on tick 2 the cloud inverter has changed its token from "abc"
\* to "xyz" and its data query has failed; its names are as configured.
C22_Witness ==
    /\ FoxCallDone /\ tick = 2 /\ call.before = "abc" /\ token = "xyz"
    /\ ~call.log[Len(call.log)].ok /\ call.row = <<Sentinel, Sentinel>>
    /\ get_names("fox")[2] = <<"fox", "bar">>

\* The call of the cloud inverter ended with a data query that was answered
\* with status 200, a body that parses and errno 0.
QueryAnswered ==
    /\ FoxCallDone /\ call.log[Len(call.log)].op = "do_query"
    /\ call.reply.sent /\ call.reply.status = StatusOk
    /\ call.reply.parses /\ call.reply.errno = 0

\* The series of a data response do not have the shape asked for: a series
\* is missing or too many, series n is not the n-th requested variable, or a
\* series has no data point.
ShapeError(series) ==
    \/ Len(series) # Len(fox_variables)
    \/ \E n \in 1..Len(series) :
          \/ n <= Len(fox_variables) /\ series[n].variable # fox_variables[n]
          \/ series[n].data = <<>>

\* C23: a data response of the cloud inverter whose series are missing,
\* reordered or without data points makes measure return the sentinel for
\* every metric; the reading of one variable never gets into the column of
\* another.
C23_ShapeErrorIsSentinel ==
    (QueryAnswered /\ ShapeError(call.reply.series)) =>
        call.row = Fill(Sentinel, Len(fox_variables))

\* The last element of a non-empty sequence.
Last(seq) == seq[Len(seq)]

\* C24: a data query of the cloud inverter answered with status 200, errno 0,
\* as many series as requested variables and no empty series succeeds, and
\* measure returns, for each series in the order of the response, the value
\* of its last data point: the row is a function of the last points alone.
C24_LastDataPoint ==
    (/\ QueryAnswered
     /\ Len(call.reply.series) = Len(fox_variables)
     /\ \A n \in 1..Len(call.reply.series) : call.reply.series[n].data # <<>>) =>
        /\ call.log[Len(call.log)].ok
        /\ call.row = [n \in 1..Len(call.reply.series) |-> Last(call.reply.series[n].data)]

\* C24 witness: the first series has two data points, and the row holds the
\* second.
C24_Witness ==
    /\ QueryAnswered
    /\ call.reply.series = << Series("foo", <<0, Reading(1, 2)>>),
                              Series("bar", <<Reading(2, 2)>>) >>
    /\ call.row = <<Reading(1, 2), Reading(2, 2)>>

\* C25: when a step of the gateway's login exchange fails (the request of the
\* challenge or the request of the SID: transport error, status other than
\* 200, unparseable body), measure returns three sentinels and the call sends
\* no switch command.
C25_GatewayLoginFailure ==
    (/\ call.sensor = "fritz"
     /\ \E k \in 1..Len(call.log) : call.log[k].op \in FritzLoginOps /\ ~call.log[k].ok) =>
        /\ call.done
        /\ call.row = <<Sentinel, Sentinel, Sentinel>>
        /\ \A k \in 1..Len(call.log) : call.log[k].op \in FritzLoginOps
        /\ ~call.log[Len(call.log)].ok

\* C25 witness: the challenge is delivered and the request of the SID fails.
C25_Witness ==
    /\ call.sensor = "fritz" /\ call.done /\ tick = 1
    /\ OpsOf(call) = <<"challenge", "response">>
    /\ call.log[1].ok /\ ~call.log[2].ok
    /\ call.msgs = 1 /\ call.row = <<Sentinel, Sentinel, Sentinel>>

\* Every request of the call succeeded.
AllOk(c) == \A k \in 1..Len(c.log) : c.log[k].ok

\* C26: element n of a successful row of the gateway and of the weather source
\* is the reading of the metric that get_names names at n; the gateway sends
\* getswitchpower, getswitchenergy and gettemperature in this order, each with
\* the SID it got in the same call.
C26_ColumnsMatchMetrics ==
    /\ (call.sensor = "fritz" /\ call.done /\ AllOk(call)) =>
          /\ OpsOf(call) = <<"challenge", "response">> \o FRITZ_OPS
          /\ \A k \in 3..5 : call.log[k].token = call.log[2].token
          /\ Len(call.row) = Len(get_names("fritz"))
          /\ \A n \in 1..Len(call.row) : \E v \in Readings : call.row[n] = Reading(n, v)
    /\ (call.sensor = "weather" /\ call.done /\ AllOk(call)) =>
          /\ Len(call.row) = Len(get_names("weather"))
          /\ \E v \in Readings : \A n \in 1..Len(call.row) : call.row[n] = Reading(n, v)

\* C26 witness: a call of the gateway with SID 9a8b7c6d5e4f3210 and three
\* readings.
C26_Witness ==
    /\ call.sensor = "fritz" /\ call.done /\ AllOk(call) /\ Len(call.log) = 5
    /\ call.log[2].token = "9a8b7c6d5e4f3210" /\ call.log[5].token = "9a8b7c6d5e4f3210"
    /\ call.row = <<Reading(1, 1), Reading(2, 2), Reading(3, 1)>>
    /\ get_names("fritz")[2] = <<"fritz", "energy">>

\* C28: the hardware source returns [0, 0, 0] when the power register reads
\* non-positive, whatever voltage and current were read, and [voltage, current,
\* power] otherwise; either way the device was put to sleep before the row
\* came back.
C28_IdleRowIsZero ==
    (call.sensor = "power" /\ call.done) =>
        /\ call.row = IF call.regs.power <= 0
                      THEN <<0, 0, 0>>
                      ELSE <<(call.regs.bus \div 8) * 4, call.regs.current,
                             call.regs.power * 20>>
        /\ call.log[Len(call.log)] = [op |-> "sleep", token |-> NoToken, ok |-> TRUE]
        /\ \E k \in 1..Len(call.log) : call.log[k].op = "read_power" /\ call.log[k].ok

\* C28 witness: the power register reads 0 while voltage and current do not.
C28_Witness ==
    /\ call.sensor = "power" /\ call.done
    /\ call.regs = [bus |-> 16, current |-> 2, power |-> 0]
    /\ call.row = <<0, 0, 0>>
    /\ call.log[7].op = "sleep"

\* C29: the stored token of the cloud inverter changes only in a step that is
\* a successful login, and then to the token that login returned; a failed
\* login, a test of the token and a data query, whatever their outcome, leave
\* it as it was.
C29_TokenFrame ==
    [][token' # token =>
          /\ call'.sensor = "fox" /\ call' # call /\ Len(call'.log) > 0
          /\ call'.log[Len(call'.log)] = [op |-> "get_token", token |-> token', ok |-> TRUE]]_vars

\* C29 witness: token abc passed its test, the data query failed, and abc is
\* still stored.
C29_Witness ==
    /\ FoxCallDone /\ call.before = "abc" /\ token = "abc"
    /\ OpsOf(call) = <<"test_token", "do_query">>
    /\ call.log[1].ok /\ ~call.log[2].ok
    /\ call.row = <<Sentinel, Sentinel>>

\* The data queries of the call in progress (positions in its log).
QueriesOf(c) == { k \in 1..Len(c.log) : c.log[k].op = "do_query" }

\* The token of entry k was refused by a test earlier in the call.
RefusedBefore(c, k) ==
    \E m \in 1..(k - 1) :
        c.log[m].op = "test_token" /\ ~c.log[m].ok /\ c.log[m].token = c.log[k].token

\* The token of entry k was returned by a login that succeeded earlier in the
\* call.
IssuedBefore(c, k) ==
    \E m \in 1..(k - 1) :
        c.log[m].op = "get_token" /\ c.log[m].ok /\ c.log[m].token = c.log[k].token

\* The token of entry k passed a test earlier in the call.
ConfirmedBefore(c, k) ==
    \E m \in 1..(k - 1) :
        c.log[m].op = "test_token" /\ c.log[m].ok /\ c.log[m].token = c.log[k].token

\* C30 as stated: a data query never carries the placeholder n/a nor a token
\* that failed its test in the same call.
C30_NeverPlaceholderNorRefused ==
    call.sensor = "fox" =>
        \A k \in QueriesOf(call) :
            /\ IssuedBefore(call, k) \/ ConfirmedBefore(call, k)
            /\ call.log[k].token # NoToken
            /\ ~RefusedBefore(call, k)

\* C30: a data query carries a token that a login of the same call returned or
\* that passed its test in the same call; it carries the placeholder n/a or a
\* token that failed its test in this call only when a login of this call
\* returned that very token.
C30_QueryTokenProvenance ==
    call.sensor = "fox" =>
        \A k \in QueriesOf(call) :
            /\ IssuedBefore(call, k) \/ ConfirmedBefore(call, k)
            /\ call.log[k].token = token
            /\ (call.log[k].token = NoToken \/ RefusedBefore(call, k))
                  => IssuedBefore(call, k)

\* C30 witness: abc failed its test, the login returned xyz and the data query
\* went out with xyz.
C30_Witness ==
    /\ call.sensor = "fox" /\ call.before = "abc"
    /\ OpsOf(call) = <<"test_token", "get_token", "do_query">>
    /\ ~call.log[1].ok /\ call.log[1].token = "abc"
    /\ call.log[2].ok /\ call.log[2].token = "xyz"
    /\ call.log[3].token = "xyz"
    /\ QueriesOf(call) = {3} /\ IssuedBefore(call, 3) /\ ~RefusedBefore(call, 3)

\* The names the two loop lists of the configuration name.
Listed == { cfg_data.slow_loop[k] : k \in 1..Len(cfg_data.slow_loop) }
              \cup { cfg_data.fast_loop[k] : k \in 1..Len(cfg_data.fast_loop) }

\* The table of name is of one of the four types.
OfKnownType(name) ==
    /\ cfg_data.sections[name].table
    /\ cfg_data.sections[name].type # None
    /\ cfg_data.sections[name].type[1] \in {"weather", "power", "fritz", "foxess"}

\* name has no table, or its table has no type or is of a known type and lacks
\* a field that type requires.
Unusable(name) ==
    \/ ~cfg_data.sections[name].table
    \/ cfg_data.sections[name].type = None
    \/ /\ OfKnownType(name)
       /\ ~(CheckedFields(cfg_data.sections[name].type[1])
               \subseteq cfg_data.sections[name].keys)

\* The sources a list of names stands for: those of a known type, in the order
\* of the list.
SourcesOf(names) ==
    LET known == SelectSeq(names, OfKnownType)
    IN  [k \in 1..Len(known) |-> SensorOf(cfg_data.sections[known[k]].type[1])]

\* C27: get_sensors builds the fast and the slow list in the configured order,
\* one source per listed name of type weather, power, fritz or foxess; a name
\* of another type gives no source and no column; a listed name without a
\* table, or with a table of a known type that lacks a required field, stops
\* the program at startup with no source built.
C27_Registry ==
    /\ pc = "begin" =>
          /\ fast_loop = SourcesOf(cfg_data.fast_loop)
          /\ slow_loop = SourcesOf(cfg_data.slow_loop)
          /\ Len(headers) = 1 + Len(LoopNames(SourcesOf(cfg_data.fast_loop)))
                              + Len(LoopNames(SourcesOf(cfg_data.slow_loop)))
    /\ (pc # "startup" /\ \E name \in Listed : Unusable(name)) => pc = "panicked"
    /\ pc \in {"startup", "panicked"} => fast_loop = <<>> /\ slow_loop = <<>>

\* C27 witness: the fast list names a device of an unknown type and then the
\* cloud inverter; the fast loop holds the cloud inverter alone.
C27_Witness ==
    /\ pc = "begin"
    /\ cfg_data.fast_loop = <<"misc", "fox">> /\ cfg_data.slow_loop = <<>>
    /\ cfg_data.sections["misc"].type = Some("camera")
    /\ fast_loop = <<"fox">> /\ slow_loop = <<>>
    /\ headers = << <<"timestamp">>, <<"fox", "foo">>, <<"fox", "bar">> >>

C32_DegeneratePeriods ==
    /\ slow_loop_delay = 1 =>
          /\ pc \in {"begin", "fast", "slow", "emit"} => j = 0
          /\ pc \in {"slow", "emit", "sleep"} => lastSampleTick = tick
          /\ Emitted => SlowPart(val) = RowsOf(lastSample)
    /\ slow_loop_delay <= 0 =>
          /\ pc \in {"begin", "fast", "slow", "emit"} => j = tick
          /\ pc = "sleep" => j = tick + 1
          /\ pc = "slow" => tick = 0
          /\ pc \in {"emit", "sleep"} =>
                /\ lastSampleTick = 0
                /\ SensorsOf(lastSample) = slow_loop
                /\ cache = RowsOf(lastSample)
          /\ Emitted => SlowPart(val) = RowsOf(lastSample)

\* C32 witness: with a period of -1 the row of tick 3 carries the sample of
\* tick 0 and j stands at 4.
C32_Witness ==
    /\ slow_loop_delay = 0 - 1 /\ Emitted /\ tick = 3 /\ j = 4
    /\ lastSampleTick = 0 /\ slow_loop # <<>>
    /\ SlowPart(val) = RowsOf(lastSample) /\ SlowPart(val) # <<>>

\* The test FoxEssSensor::measure makes to tell a held session from none.
HoldsSession(tok) == tok # NoToken

\* A login of the call in progress succeeded.
LoginSucceeded(c) == \E k \in LoginsOf(c) : c.log[k].ok

\* C33: the cloud inverter is without a session exactly as long as no login
\* has succeeded: a call that holds no session and in which no login succeeds
\* leaves it without one; a call in which a login succeeds leaves it holding a
\* session, whatever token the backend issued, so that its next call starts
\* with a test of the token, as every call that starts with a session does.
C33_SessionAfterLogin ==
    call.sensor = "fox" =>
        /\ LoginSucceeded(call) => HoldsSession(token)
        /\ (~HoldsSession(call.before) /\ ~LoginSucceeded(call)) => ~HoldsSession(token)
        /\ call.log # <<>> =>
              (call.log[1].op = "test_token") = HoldsSession(call.before)

\* C34: sleep clears the three low bits of the 16-bit configuration register
\* and leaves the other 13 as they are; wake, whatever the register holds and
\* so also after a sleep, leaves the three low bits other than 000, the
\* power-down mode.
C34_ModeBits ==
    [][/\ pc' = "asleep" =>
              /\ ina_config' % 8 = 0
              /\ ina_config' \div 8 = ina_config \div 8
       /\ pc' = "awake" => ina_config' % 8 # 0]_vars

====
